---- MODULE Spec2Model ----
(***************************************************************************)
(* Model of the film hardware image pipeline of LuxCore                    *)
(* (src/slg/film/filmimagepipelinehw.cpp): the Film members SetUpHW,       *)
(* CreateHWContext, AllocateHWBuffers, CompileHWKernels,                   *)
(* MergeSampleBuffersHW and DeleteHWContext, driving one hardware device   *)
(* through one in-order command queue.                                     *)
(*                                                                         *)
(* Numbers: the code computes in float/double.  The model computes in      *)
(* exact non-negative rationals <<n, d>> (d > 0, lowest terms), so that    *)
(* pixelCount / sampleCount and the products with the scales are exact.    *)
(* Undef == <<0, 0>> stands for a value the program never defined (an      *)
(* unbound kernel argument, the content of a buffer never written).        *)
(*                                                                         *)
(* Indices are the code's 0-based indices; a TLA+ sequence s holds the     *)
(* element of index i at s[i + 1].                                         *)
(***************************************************************************)
EXTENDS Integers, Sequences, FiniteSets

\* ------------------------------------------------------------------ bounds

\* Largest number of light groups (radianceGroupCount) of a film.
MaxGroups == 2
\* Largest number of configured image pipelines of a film.
MaxPipelines == 1
\* Number of MergeSampleBuffersHW calls of one run.
MaxMerges == 2
\* Film width in pixels; the films explored are one pixel high
\* (pixelCount = width * height).
MaxWidth == 2
\* Largest number of device descriptions the platform offers.
MaxDescs == 3

\* --------------------------------------------------------------- rationals

Undef == <<0, 0>>

RECURSIVE GCD(_, _)
GCD(a, b) == IF b = 0 THEN a ELSE GCD(b, a % b)

Norm(n, d) == LET g == GCD(n, d) IN <<n \div g, d \div g>>

Rat(n) == <<n, 1>>

RAdd(x, y) ==
    IF x = Undef \/ y = Undef THEN Undef
    ELSE Norm(x[1] * y[2] + y[1] * x[2], x[2] * y[2])

RMul(x, y) ==
    IF x = Undef \/ y = Undef THEN Undef
    ELSE Norm(x[1] * y[1], x[2] * y[2])

\* A Spectrum is the triple of its components c[0], c[1], c[2].
SpectrumOf(r, g, b) == <<Rat(r), Rat(g), Rat(b)>>

SAdd(s, t) == [c \in 1..3 |-> RAdd(s[c], t[c])]

SMul(s, t) == [c \in 1..3 |-> RMul(s[c], t[c])]

\* float * Spectrum
SScale(f, s) == [c \in 1..3 |-> RMul(f, s[c])]

Black == SpectrumOf(0, 0, 0)

UndefSpectrum == <<Undef, Undef, Undef>>

\* ------------------------------------------------------------ film inputs

\* The channel kinds Film::HasChannel is asked about in this file.
ALPHA == "ALPHA"
OBJECT_ID == "OBJECT_ID"
RADIANCE_PER_PIXEL_NORMALIZED == "RADIANCE_PER_PIXEL_NORMALIZED"
RADIANCE_PER_SCREEN_NORMALIZED == "RADIANCE_PER_SCREEN_NORMALIZED"

\* The channel sets of the films explored (the IMAGEPIPELINE channel is
\* always present: AllocateHWBuffers reads channel_IMAGEPIPELINEs[0]).
FilmChannelSets ==
    { {ALPHA},
      {RADIANCE_PER_PIXEL_NORMALIZED, OBJECT_ID},
      {RADIANCE_PER_SCREEN_NORMALIZED, ALPHA},
      {RADIANCE_PER_PIXEL_NORMALIZED, RADIANCE_PER_SCREEN_NORMALIZED,
       ALPHA, OBJECT_ID} }

\* Values of samplesCounts.GetSampleCount_RADIANCE_PER_SCREEN_NORMALIZED().
SampleCounts == {0, 1, 3}

\* The scale (RadianceChannelScale::GetScale) configured for the group of
\* index g: components differ from each other and from group to group.
GroupScale(g) == SpectrumOf(g + 1, g, 2)

\* Pixel p of the channel of light group (or, for the image-pipeline
\* channels, of target) index: the radiance the renderer accumulated, the
\* image left by an earlier frame.
Pixel(kind, index, p) ==
    CASE kind = "RADIANCE_PER_PIXEL_NORMALIZED" ->
            SpectrumOf(index + p + 1, 3 * index + 2, 2 * p + 1)
      [] kind = "RADIANCE_PER_SCREEN_NORMALIZED" ->
            SpectrumOf(2 * index + p + 1, 1, index + 3)
      [] kind = "IMAGEPIPELINE" ->
            SpectrumOf(index + 7, p, 1)

\* The device descriptions left by DeviceDescription::Filter(
\* DEVICE_TYPE_ALL_HARDWARE): their types.
DEVICE_TYPE_CUDA_GPU == "CUDA_GPU"
DEVICE_TYPE_OPENCL_GPU == "OPENCL_GPU"
DEVICE_TYPE_OPENCL_CPU == "OPENCL_CPU"

\* ------------------------------------------------------------------ state

VARIABLES
    \* Film: geometry, channels, light groups, image pipelines
    width, height, channels, radianceGroupCount, imagePipelines,
    channel_IMAGEPIPELINEs, channel_ALPHA, channel_OBJECT_ID,
    channel_RADIANCE_PER_PIXEL_NORMALIZEDs,
    channel_RADIANCE_PER_SCREEN_NORMALIZEDs,
    samplesCounts,
    \* Film: hardware members
    hwEnable, hwDeviceIndex, ctx, dataSet, hardwareDevice,
    hw_IMAGEPIPELINE, hw_ALPHA, hw_OBJECT_ID, hw_mergeBuffer,
    mergeInitializeKernel, mergeRADIANCE_PER_PIXEL_NORMALIZEDKernel,
    mergeRADIANCE_PER_SCREEN_NORMALIZEDKernel, mergeFinalizeKernel,
    \* The platform: the descriptions it offers, the device's command queue
    descs, queue,
    \* What DeleteHWContext did, in the order of its statements
    released,
    \* MergeSampleBuffersHW: position, parameter and locals
    pc, imagePipelineIndex, i, factor,
    \* History: operations issued by the host and executed by the device in
    \* the current call, the host channels as they were at the call, and the
    \* target and result of every MergeSampleBuffersHW call that returned
    trace, executed, atCall, returned

filmVars ==
    <<width, height, channels, radianceGroupCount, imagePipelines,
      channel_ALPHA, channel_OBJECT_ID,
      channel_RADIANCE_PER_PIXEL_NORMALIZEDs,
      channel_RADIANCE_PER_SCREEN_NORMALIZEDs, samplesCounts,
      hwEnable, hwDeviceIndex, descs>>

contextVars == <<ctx, dataSet, hardwareDevice, released>>

bufferVars == <<hw_IMAGEPIPELINE, hw_ALPHA, hw_OBJECT_ID, hw_mergeBuffer>>

kernelVars ==
    <<mergeInitializeKernel, mergeRADIANCE_PER_PIXEL_NORMALIZEDKernel,
      mergeRADIANCE_PER_SCREEN_NORMALIZEDKernel, mergeFinalizeKernel>>

localVars == <<imagePipelineIndex, i, factor>>

historyVars == <<trace, executed, atCall, returned>>

vars ==
    <<filmVars, channel_IMAGEPIPELINEs, contextVars, bufferVars, kernelVars,
      queue, pc, localVars, historyVars>>

pixelCount == width * height

HasChannel(type) == type \in channels

\* Channel contents: the sequence of the channel's pixels.
ChannelOf(kind, index) == [p \in 1..pixelCount |-> Pixel(kind, index, p - 1)]

\* GenericFrameBuffer::GetSize(): bytes of a channel of the given kind.
ChannelSize(kind) ==
    CASE kind = "IMAGEPIPELINE" -> pixelCount * 3 * 4
      [] kind = RADIANCE_PER_PIXEL_NORMALIZED -> pixelCount * 4 * 4
      [] kind = RADIANCE_PER_SCREEN_NORMALIZED -> pixelCount * 3 * 4
      [] kind = ALPHA -> pixelCount * 2 * 4
      [] kind = OBJECT_ID -> pixelCount * 4

\* The null device handle; a device handle names the description it was
\* added from (its index in descs) and has that description's type.
NullDevice == [desc |-> -1, type |-> "null"]

\* A null handle, a device buffer, a kernel.
NullBuffer == [state |-> "null", size |-> 0, data |-> <<>>]

NullKernel == [state |-> "null", bound |-> 0, scale |-> <<>>]

\* ------------------------------------------------------------ construction

\* Film::SetUpHW
SetUpHW ==
    /\ hwEnable = TRUE
    /\ hwDeviceIndex = -1
    /\ ctx = "null"
    /\ dataSet = "null"
    /\ hardwareDevice = NullDevice
    /\ hw_IMAGEPIPELINE = NullBuffer
    /\ hw_ALPHA = NullBuffer
    /\ hw_OBJECT_ID = NullBuffer
    /\ hw_mergeBuffer = NullBuffer
    /\ mergeInitializeKernel = NullKernel
    /\ mergeRADIANCE_PER_PIXEL_NORMALIZEDKernel = NullKernel
    /\ mergeRADIANCE_PER_SCREEN_NORMALIZEDKernel = NullKernel
    /\ mergeFinalizeKernel = NullKernel

\* The radianceChannelScales of the image pipeline of index j: the groups'
\* enable flags en (chosen freely for pipeline 0) rotated by j, each group
\* with a scale of its own.
PipelineOf(en, j) ==
    [radianceChannelScales |->
        [g \in 1..Len(en) |->
            [enabled |-> en[((g - 1 + j) % Len(en)) + 1],
             scale |-> GroupScale((g - 1 + j) % Len(en))]]]

\* The films explored: geometry, channels, light groups, image pipelines and
\* one host image-pipeline channel per pipeline, or one more (the channel a
\* merge without its own pipeline works on).
InitFilm ==
    /\ width = MaxWidth
    /\ height = 1
    /\ channels \in FilmChannelSets
    /\ radianceGroupCount \in 1..MaxGroups
    /\ \E en \in [1..radianceGroupCount -> BOOLEAN], np \in 0..MaxPipelines :
          /\ imagePipelines = [j \in 1..np |-> PipelineOf(en, j - 1)]
          /\ \E nc \in {np, np + 1} :
                /\ nc >= 1
                /\ channel_IMAGEPIPELINEs =
                       [j \in 1..nc |-> ChannelOf("IMAGEPIPELINE", j - 1)]
    /\ channel_ALPHA =
           IF HasChannel(ALPHA) THEN [p \in 1..pixelCount |-> <<Rat(1)>>]
           ELSE <<>>
    /\ channel_OBJECT_ID =
           IF HasChannel(OBJECT_ID) THEN [p \in 1..pixelCount |-> <<Rat(p)>>]
           ELSE <<>>
    /\ channel_RADIANCE_PER_PIXEL_NORMALIZEDs =
           IF HasChannel(RADIANCE_PER_PIXEL_NORMALIZED)
           THEN [g \in 1..radianceGroupCount |-> ChannelOf(RADIANCE_PER_PIXEL_NORMALIZED, g - 1)]
           ELSE <<>>
    /\ channel_RADIANCE_PER_SCREEN_NORMALIZEDs =
           IF HasChannel(RADIANCE_PER_SCREEN_NORMALIZED)
           THEN [g \in 1..radianceGroupCount |-> ChannelOf(RADIANCE_PER_SCREEN_NORMALIZED, g - 1)]
           ELSE <<>>
    /\ samplesCounts \in
           IF HasChannel(RADIANCE_PER_SCREEN_NORMALIZED)
           THEN SampleCounts ELSE {0}

\* The device lists of the platforms explored.
PlatformDescs ==
    { <<>>, <<DEVICE_TYPE_OPENCL_CPU, DEVICE_TYPE_OPENCL_GPU>> }

Init ==
    /\ InitFilm
    /\ SetUpHW
    /\ descs \in PlatformDescs
    /\ queue = <<>>
    /\ released = <<>>
    /\ pc = "idle"
    /\ imagePipelineIndex = 0
    /\ i = 0
    /\ factor = Rat(1)
    /\ trace = <<>>
    /\ executed = <<>>
    /\ atCall = <<>>
    /\ returned = <<>>

\* ------------------------------------------------------- Film::CreateHWContext

\* Faulty variant: the scan does not stop at a CUDA device.
RECURSIVE ScanDevices_NoBreak(_, _, _)
ScanDevices_NoBreak(d, n, sel) ==
    IF n >= Len(d) THEN sel
    ELSE IF d[n + 1] = DEVICE_TYPE_CUDA_GPU
         THEN ScanDevices_NoBreak(d, n + 1, n)
    ELSE IF d[n + 1] = DEVICE_TYPE_OPENCL_GPU
         THEN ScanDevices_NoBreak(d, n + 1, n)
    ELSE ScanDevices_NoBreak(d, n + 1, sel)

\* The scan of lines 73-86 from index n on, sel being selectedDeviceDesc
\* so far (-1: nullptr): the index of the description it ends with.
RECURSIVE ScanDevices(_, _, _)
ScanDevices(d, n, sel) ==
    IF n >= Len(d) THEN sel
    ELSE IF d[n + 1] = DEVICE_TYPE_CUDA_GPU THEN n
    ELSE IF d[n + 1] = DEVICE_TYPE_OPENCL_GPU THEN ScanDevices(d, n + 1, n)
    ELSE ScanDevices(d, n + 1, sel)

\* Faulty variant: index 0 does not count as pinned.
SelectedDeviceDesc_PositiveIndex ==
    IF hwEnable
    THEN IF hwDeviceIndex > 0 /\ hwDeviceIndex < Len(descs) THEN hwDeviceIndex
         ELSE IF Len(descs) > 0 THEN ScanDevices(descs, 0, -1)
         ELSE -1
    ELSE -1

\* selectedDeviceDesc of lines 66-90, as an index into descs (-1: nullptr).
SelectedDeviceDesc ==
    IF hwEnable
    THEN IF hwDeviceIndex >= 0 /\ hwDeviceIndex < Len(descs) THEN hwDeviceIndex
         ELSE IF Len(descs) > 0 THEN ScanDevices(descs, 0, -1)
         ELSE -1
    ELSE -1

\* Lines 94-97: the device the context adds for the selected description.
AddHardwareDevices(selected) ==
    [desc |-> selected, type |-> descs[selected + 1]]

\* Faulty variant: the dataset is attached and the context started whether
\* or not a description was selected.
CreateHWContext_AlwaysStart ==
    /\ pc = "idle"
    /\ ctx = "null"
    /\ hardwareDevice' =
           IF SelectedDeviceDesc >= 0
           THEN AddHardwareDevices(SelectedDeviceDesc) ELSE hardwareDevice
    /\ dataSet' = "live"
    /\ ctx' = "started"
    /\ UNCHANGED <<filmVars, channel_IMAGEPIPELINEs, bufferVars, kernelVars,
                   queue, pc, localVars, historyVars, released>>

CreateHWContext ==
    /\ pc = "idle"
    /\ ctx = "null"
    /\ IF SelectedDeviceDesc >= 0
       THEN /\ hardwareDevice' = AddHardwareDevices(SelectedDeviceDesc)
            /\ dataSet' = "live"
            /\ ctx' = "started"
       ELSE /\ ctx' = "created"
            /\ UNCHANGED <<dataSet, hardwareDevice>>
    /\ UNCHANGED <<filmVars, channel_IMAGEPIPELINEs, bufferVars, kernelVars,
                   queue, pc, localVars, historyVars, released>>

\* ----------------------------------------------------- Film::AllocateHWBuffers

\* HardwareDevice::AllocBufferRW / AllocBufferRO: a buffer of the given size,
\* holding a copy of the host data when a host pointer is given and nothing
\* defined when it is nullptr.
AllocBuffer(src, size) ==
    [state |-> "live", size |-> size,
     data |-> IF src = <<>> THEN [p \in 1..pixelCount |-> UndefSpectrum]
              ELSE src]

Max(a, b) == IF a > b THEN a ELSE b

\* Faulty variant: the per-screen-normalized channel is not counted.
mergeBufferSize_PerPixelOnly ==
    IF HasChannel(RADIANCE_PER_PIXEL_NORMALIZED)
    THEN ChannelSize(RADIANCE_PER_PIXEL_NORMALIZED) ELSE 0

\* Lines 151-153.
mergeBufferSize ==
    Max(IF HasChannel(RADIANCE_PER_PIXEL_NORMALIZED)
            THEN ChannelSize(RADIANCE_PER_PIXEL_NORMALIZED) ELSE 0,
        IF HasChannel(RADIANCE_PER_SCREEN_NORMALIZED)
            THEN ChannelSize(RADIANCE_PER_SCREEN_NORMALIZED) ELSE 0)

AllocateHWBuffers ==
    /\ pc = "idle"
    /\ ctx = "started"
    /\ hw_IMAGEPIPELINE = NullBuffer
    /\ hw_IMAGEPIPELINE' =
           AllocBuffer(channel_IMAGEPIPELINEs[1], ChannelSize("IMAGEPIPELINE"))
    /\ hw_ALPHA' =
           IF HasChannel(ALPHA)
           THEN AllocBuffer(channel_ALPHA, ChannelSize(ALPHA)) ELSE hw_ALPHA
    /\ hw_OBJECT_ID' =
           IF HasChannel(OBJECT_ID)
           THEN AllocBuffer(channel_OBJECT_ID, ChannelSize(OBJECT_ID))
           ELSE hw_OBJECT_ID
    /\ hw_mergeBuffer' =
           IF mergeBufferSize > 0 THEN AllocBuffer(<<>>, mergeBufferSize)
           ELSE hw_mergeBuffer
    /\ UNCHANGED <<filmVars, channel_IMAGEPIPELINEs, contextVars, kernelVars,
                   queue, pc, localVars, historyVars>>

\* ------------------------------------------------------ Film::CompileHWKernels

\* HardwareDevice::GetKernel followed by the SetKernelArg calls binding the
\* first n arguments; the scale arguments 4, 5, 6 of the two accumulate
\* kernels stay unset ("Scale RGB arguments are set at runtime").
CompiledKernel(n) ==
    [state |-> "live", bound |-> n,
     scale |-> IF n = 4 THEN <<Undef, Undef, Undef>> ELSE <<>>]

CompileHWKernels ==
    /\ pc = "idle"
    /\ ctx = "started"
    /\ hw_IMAGEPIPELINE # NullBuffer
    /\ mergeInitializeKernel = NullKernel
    /\ mergeInitializeKernel' = CompiledKernel(3)
    /\ mergeRADIANCE_PER_PIXEL_NORMALIZEDKernel' = CompiledKernel(4)
    /\ mergeRADIANCE_PER_SCREEN_NORMALIZEDKernel' = CompiledKernel(4)
    /\ mergeFinalizeKernel' = CompiledKernel(3)
    /\ UNCHANGED <<filmVars, channel_IMAGEPIPELINEs, contextVars, bufferVars,
                   queue, pc, localVars, historyVars>>

\* ------------------------------------------------- the device and its queue

\* An operation issued through the HardwareDevice interface: what it is, the
\* buffer or kernel it is about, the host channel (kind, index) a transfer
\* reads or writes, its byte count, and the scale arguments a dispatch
\* carries or the value a SetKernelArg binds.  For an accumulate dispatch idx
\* is the light group being processed.
Op(type, obj, kind, idx, size, val) ==
    [type |-> type, obj |-> obj, kind |-> kind, idx |-> idx, size |-> size,
     val |-> val]

\* hardwareDevice->EnqueueWriteBuffer(buf, false, size, pixels)
WriteOp(buf, kind, idx) == Op("write", buf, kind, idx, ChannelSize(kind), <<>>)

\* hardwareDevice->EnqueueReadBuffer(buf, false, size, pixels)
ReadOp(buf, kind, idx) == Op("read", buf, kind, idx, ChannelSize(kind), <<>>)

\* hardwareDevice->EnqueueKernel(kernel, range, workgroup): the dispatch
\* carries the argument values bound at the time of the call.
KernelOp(name, kernel, idx) == Op("kernel", name, "", idx, 0, kernel.scale)

\* hardwareDevice->SetKernelArg(kernel, slot, value)
SetArgOp(name, slot, value) == Op("setarg", name, "", slot, 0, <<value>>)

SetKernelArg(kernel, slot, value) ==
    [kernel EXCEPT !.scale[slot - 3] = value]

\* The kernels of film_mergesamplebuffer_funcs, as the merge contract states
\* them: initialize clears the framebuffer, accumulate adds scale * scratch to
\* it, finalize leaves it as it is.
Film_MergeBufferInitialize(fb) == [p \in DOMAIN fb |-> Black]

Film_MergeRADIANCE(fb, scratch, scale) ==
    [p \in DOMAIN fb |-> SAdd(fb[p], SMul(scale, scratch[p]))]

Film_MergeBufferFinalize(fb) == fb

\* The host channel a transfer names.
HostChannel(kind, idx) ==
    CASE kind = "IMAGEPIPELINE" -> channel_IMAGEPIPELINEs[idx + 1]
      [] kind = RADIANCE_PER_PIXEL_NORMALIZED ->
            channel_RADIANCE_PER_PIXEL_NORMALIZEDs[idx + 1]
      [] kind = RADIANCE_PER_SCREEN_NORMALIZED ->
            channel_RADIANCE_PER_SCREEN_NORMALIZEDs[idx + 1]

\* The framebuffer after the kernel of a dispatch has run.
RunKernel(op) ==
    CASE op.obj = "mergeInitializeKernel" ->
            Film_MergeBufferInitialize(hw_IMAGEPIPELINE.data)
      [] op.obj = "mergeFinalizeKernel" ->
            Film_MergeBufferFinalize(hw_IMAGEPIPELINE.data)
      [] OTHER ->
            Film_MergeRADIANCE(hw_IMAGEPIPELINE.data, hw_mergeBuffer.data,
                               op.val)

\* The operation the device runs next: the oldest of the queue.
NextOp == Head(queue)

\* The device runs one operation of its queue: a transfer copies the host
\* channel as it is at that time into the buffer, or the buffer into it.
DeviceExecute ==
    /\ queue # <<>>
    /\ LET op == NextOp IN
        /\ queue' = Tail(queue)
        /\ executed' = Append(executed, op)
        /\ hw_IMAGEPIPELINE' =
               IF op.type = "write" /\ op.obj = "hw_IMAGEPIPELINE"
               THEN [hw_IMAGEPIPELINE EXCEPT
                        !.data = HostChannel(op.kind, op.idx)]
               ELSE IF op.type = "kernel"
               THEN [hw_IMAGEPIPELINE EXCEPT !.data = RunKernel(op)]
               ELSE hw_IMAGEPIPELINE
        /\ hw_mergeBuffer' =
               IF op.type = "write" /\ op.obj = "hw_mergeBuffer"
               THEN [hw_mergeBuffer EXCEPT
                        !.data = HostChannel(op.kind, op.idx)]
               ELSE hw_mergeBuffer
        /\ channel_IMAGEPIPELINEs' =
               IF op.type = "read"
               THEN [channel_IMAGEPIPELINEs EXCEPT
                        ![op.idx + 1] = hw_IMAGEPIPELINE.data]
               ELSE channel_IMAGEPIPELINEs
    /\ UNCHANGED <<filmVars, contextVars, hw_ALPHA, hw_OBJECT_ID, kernelVars,
                   pc, localVars, trace, atCall, returned>>

\* ------------------------------------------------- Film::MergeSampleBuffersHW

merges == Len(returned)

\* Line 262: whether ip is an image pipeline (not nullptr).
HasImagePipeline == imagePipelineIndex < Len(imagePipelines)

ip == imagePipelines[imagePipelineIndex + 1]

\* Faulty variant: without a pipeline no group counts as enabled.
GroupEnabled_NeedsPipeline(g) ==
    IF HasImagePipeline THEN ip.radianceChannelScales[g + 1].enabled ELSE FALSE

\* Faulty variant: the enable flag is not consulted.
GroupEnabled_Always(g) == TRUE

\* Lines 275 and 298: the test guarding the body of the loops.
GroupEnabled(g) ==
    IF HasImagePipeline THEN ip.radianceChannelScales[g + 1].enabled ELSE TRUE

\* Line 282: the scale of the per-pixel-normalized pass.
ScalePPN(g) ==
    IF HasImagePipeline THEN ip.radianceChannelScales[g + 1].scale
    ELSE SpectrumOf(1, 1, 1)

\* Faulty variant: the quotient is formed whatever the sample count.
NormalizationFactor_NoGuard == Norm(pixelCount, samplesCounts)

\* Line 295: the normalization factor.
NormalizationFactor ==
    IF samplesCounts > 0 THEN Norm(pixelCount, samplesCounts) ELSE Rat(1)

\* Faulty variant: the per-screen-normalized scale without the factor.
ScalePSN_NoFactor(g) ==
    IF HasImagePipeline THEN ip.radianceChannelScales[g + 1].scale
    ELSE SpectrumOf(1, 1, 1)

\* Line 305: the scale of the per-screen-normalized pass.
ScalePSN(g) ==
    SScale(factor, IF HasImagePipeline
                   THEN ip.radianceChannelScales[g + 1].scale
                   ELSE SpectrumOf(1, 1, 1))

\* The host memory a merge may read or write.
HostState ==
    [imagepipelines |-> channel_IMAGEPIPELINEs,
     alpha |-> channel_ALPHA,
     objectId |-> channel_OBJECT_ID,
     perPixel |-> channel_RADIANCE_PER_PIXEL_NORMALIZEDs,
     perScreen |-> channel_RADIANCE_PER_SCREEN_NORMALIZEDs,
     pipelines |-> imagePipelines,
     samples |-> samplesCounts]

\* The host issues op to the device queue (a non-blocking enqueue).
Enqueue(op) ==
    /\ queue' = Append(queue, op)
    /\ trace' = Append(trace, op)

\* Faulty variant: slot 6 keeps its previous binding.
BindScale_TwoSlots(kernel, scale) ==
    SetKernelArg(SetKernelArg(kernel, 4, scale[1]), 5, scale[2])

\* The three SetKernelArg calls binding a scale to slots 4, 5 and 6.
BindScale(kernel, scale) ==
    SetKernelArg(SetKernelArg(SetKernelArg(kernel, 4, scale[1]),
                              5, scale[2]), 6, scale[3])

BindScaleOps(name, scale) ==
    <<SetArgOp(name, 4, scale[1]), SetArgOp(name, 5, scale[2]),
      SetArgOp(name, 6, scale[3])>>

\* Lines 261-267: the call, for a target whose host channel exists, on a core
\* whose buffers are allocated and kernels compiled; the upload of the
\* target's image-pipeline channel.
Merge_WriteImagePipeline(k) ==
    /\ pc = "idle"
    /\ mergeInitializeKernel.state = "live"
    /\ merges < MaxMerges
    /\ k < Len(channel_IMAGEPIPELINEs)
    /\ imagePipelineIndex' = k
    /\ atCall' = HostState
    /\ executed' = <<>>
    /\ queue' = Append(queue, WriteOp("hw_IMAGEPIPELINE", "IMAGEPIPELINE", k))
    /\ trace' = <<WriteOp("hw_IMAGEPIPELINE", "IMAGEPIPELINE", k)>>
    /\ pc' = "initialize"
    /\ UNCHANGED <<filmVars, channel_IMAGEPIPELINEs, contextVars, bufferVars,
                   kernelVars, i, factor, returned>>

\* Faulty variant: the initialize kernel is not dispatched.
Merge_Initialize_NoDispatch ==
    /\ pc = "initialize"
    /\ pc' = "ppn"
    /\ i' = 0
    /\ UNCHANGED <<filmVars, channel_IMAGEPIPELINEs, contextVars, bufferVars,
                   kernelVars, queue, imagePipelineIndex, factor, historyVars>>

\* Lines 270-271.
Merge_Initialize ==
    /\ pc = "initialize"
    /\ Enqueue(KernelOp("mergeInitializeKernel", mergeInitializeKernel, 0))
    /\ pc' = "ppn"
    /\ i' = 0
    /\ UNCHANGED <<filmVars, channel_IMAGEPIPELINEs, contextVars, bufferVars,
                   kernelVars, imagePipelineIndex, factor, executed, atCall,
                   returned>>

\* Faulty variant: the loop ends one group early.
PPN_Done_OneEarly ==
    /\ pc = "ppn"
    /\ IF HasChannel(RADIANCE_PER_PIXEL_NORMALIZED)
       THEN i >= radianceGroupCount - 1 ELSE TRUE
    /\ pc' = "psn_factor"
    /\ UNCHANGED <<filmVars, channel_IMAGEPIPELINEs, contextVars, bufferVars,
                   kernelVars, queue, localVars, historyVars>>

\* Lines 273-274: no per-pixel-normalized channel, or the loop is over.
PPN_Done ==
    /\ pc = "ppn"
    /\ IF HasChannel(RADIANCE_PER_PIXEL_NORMALIZED)
       THEN i >= radianceGroupCount ELSE TRUE
    /\ pc' = "psn_factor"
    /\ UNCHANGED <<filmVars, channel_IMAGEPIPELINEs, contextVars, bufferVars,
                   kernelVars, queue, localVars, historyVars>>

\* Lines 274-275: the group is disabled; next group.
PPN_Skip ==
    /\ pc = "ppn"
    /\ HasChannel(RADIANCE_PER_PIXEL_NORMALIZED)
    /\ i < radianceGroupCount
    /\ ~GroupEnabled(i)
    /\ i' = i + 1
    /\ UNCHANGED <<filmVars, channel_IMAGEPIPELINEs, contextVars, bufferVars,
                   kernelVars, queue, pc, imagePipelineIndex, factor,
                   historyVars>>

\* Lines 275-279: the group is enabled; upload of its channel to the scratch
\* buffer.
\* Faulty variant: the group's channel is not uploaded.
PPN_Write_NoUpload ==
    /\ pc = "ppn"
    /\ HasChannel(RADIANCE_PER_PIXEL_NORMALIZED)
    /\ i < radianceGroupCount
    /\ GroupEnabled(i)
    /\ pc' = "ppn_args"
    /\ UNCHANGED <<filmVars, channel_IMAGEPIPELINEs, contextVars, bufferVars,
                   kernelVars, queue, localVars, historyVars>>

PPN_Write ==
    /\ pc = "ppn"
    /\ HasChannel(RADIANCE_PER_PIXEL_NORMALIZED)
    /\ i < radianceGroupCount
    /\ GroupEnabled(i)
    /\ Enqueue(WriteOp("hw_mergeBuffer", RADIANCE_PER_PIXEL_NORMALIZED, i))
    /\ pc' = "ppn_args"
    /\ UNCHANGED <<filmVars, channel_IMAGEPIPELINEs, contextVars, bufferVars,
                   kernelVars, localVars, executed, atCall, returned>>

\* Lines 282-285.
PPN_SetKernelArg ==
    /\ pc = "ppn_args"
    /\ mergeRADIANCE_PER_PIXEL_NORMALIZEDKernel' =
           BindScale(mergeRADIANCE_PER_PIXEL_NORMALIZEDKernel, ScalePPN(i))
    /\ trace' = trace \o
           BindScaleOps("mergeRADIANCE_PER_PIXEL_NORMALIZEDKernel", ScalePPN(i))
    /\ pc' = "ppn_enqueue"
    /\ UNCHANGED <<filmVars, channel_IMAGEPIPELINEs, contextVars, bufferVars,
                   mergeInitializeKernel,
                   mergeRADIANCE_PER_SCREEN_NORMALIZEDKernel,
                   mergeFinalizeKernel, queue, localVars, executed, atCall,
                   returned>>

\* Lines 287-288, and the loop's ++i.
PPN_EnqueueKernel ==
    /\ pc = "ppn_enqueue"
    /\ Enqueue(KernelOp("mergeRADIANCE_PER_PIXEL_NORMALIZEDKernel",
                        mergeRADIANCE_PER_PIXEL_NORMALIZEDKernel, i))
    /\ i' = i + 1
    /\ pc' = "ppn"
    /\ UNCHANGED <<filmVars, channel_IMAGEPIPELINEs, contextVars, bufferVars,
                   kernelVars, imagePipelineIndex, factor, executed, atCall,
                   returned>>

\* Faulty variant: without a per-screen-normalized channel the finalize dispatch is
\* left out.
PSN_Absent_NoFinalize ==
    /\ pc = "psn_factor"
    /\ ~HasChannel(RADIANCE_PER_SCREEN_NORMALIZED)
    /\ pc' = "read"
    /\ UNCHANGED <<filmVars, channel_IMAGEPIPELINEs, contextVars, bufferVars,
                   kernelVars, queue, localVars, historyVars>>

\* Line 293: no per-screen-normalized channel.
PSN_Absent ==
    /\ pc = "psn_factor"
    /\ ~HasChannel(RADIANCE_PER_SCREEN_NORMALIZED)
    /\ pc' = "finalize"
    /\ UNCHANGED <<filmVars, channel_IMAGEPIPELINEs, contextVars, bufferVars,
                   kernelVars, queue, localVars, historyVars>>

\* Lines 293-295: the factor, computed once before the loop.
PSN_Factor ==
    /\ pc = "psn_factor"
    /\ HasChannel(RADIANCE_PER_SCREEN_NORMALIZED)
    /\ factor' = NormalizationFactor
    /\ i' = 0
    /\ pc' = "psn"
    /\ UNCHANGED <<filmVars, channel_IMAGEPIPELINEs, contextVars, bufferVars,
                   kernelVars, queue, imagePipelineIndex, historyVars>>

\* Line 297: the loop is over.
PSN_Done ==
    /\ pc = "psn"
    /\ i >= radianceGroupCount
    /\ pc' = "finalize"
    /\ UNCHANGED <<filmVars, channel_IMAGEPIPELINEs, contextVars, bufferVars,
                   kernelVars, queue, localVars, historyVars>>

\* Lines 297-298: the group is disabled; next group.
PSN_Skip ==
    /\ pc = "psn"
    /\ i < radianceGroupCount
    /\ ~GroupEnabled(i)
    /\ i' = i + 1
    /\ UNCHANGED <<filmVars, channel_IMAGEPIPELINEs, contextVars, bufferVars,
                   kernelVars, queue, pc, imagePipelineIndex, factor,
                   historyVars>>

\* Lines 298-302: the group is enabled; upload of its channel to the scratch
\* buffer.
PSN_Write ==
    /\ pc = "psn"
    /\ i < radianceGroupCount
    /\ GroupEnabled(i)
    /\ Enqueue(WriteOp("hw_mergeBuffer", RADIANCE_PER_SCREEN_NORMALIZED, i))
    /\ pc' = "psn_args"
    /\ UNCHANGED <<filmVars, channel_IMAGEPIPELINEs, contextVars, bufferVars,
                   kernelVars, localVars, executed, atCall, returned>>

\* Lines 305-308.
PSN_SetKernelArg ==
    /\ pc = "psn_args"
    /\ mergeRADIANCE_PER_SCREEN_NORMALIZEDKernel' =
           BindScale(mergeRADIANCE_PER_SCREEN_NORMALIZEDKernel, ScalePSN(i))
    /\ trace' = trace \o
           BindScaleOps("mergeRADIANCE_PER_SCREEN_NORMALIZEDKernel",
                        ScalePSN(i))
    /\ pc' = "psn_enqueue"
    /\ UNCHANGED <<filmVars, channel_IMAGEPIPELINEs, contextVars, bufferVars,
                   mergeInitializeKernel,
                   mergeRADIANCE_PER_PIXEL_NORMALIZEDKernel,
                   mergeFinalizeKernel, queue, localVars, executed, atCall,
                   returned>>

\* Lines 310-311, and the loop's ++i.
PSN_EnqueueKernel ==
    /\ pc = "psn_enqueue"
    /\ Enqueue(KernelOp("mergeRADIANCE_PER_SCREEN_NORMALIZEDKernel",
                        mergeRADIANCE_PER_SCREEN_NORMALIZEDKernel, i))
    /\ i' = i + 1
    /\ pc' = "psn"
    /\ UNCHANGED <<filmVars, channel_IMAGEPIPELINEs, contextVars, bufferVars,
                   kernelVars, imagePipelineIndex, factor, executed, atCall,
                   returned>>

\* Lines 317-318.
Merge_Finalize ==
    /\ pc = "finalize"
    /\ Enqueue(KernelOp("mergeFinalizeKernel", mergeFinalizeKernel, 0))
    /\ pc' = "read"
    /\ UNCHANGED <<filmVars, channel_IMAGEPIPELINEs, contextVars, bufferVars,
                   kernelVars, localVars, executed, atCall, returned>>

\* Faulty variant: the result is read back into the first channel.
ReadBackIndex_First == imagePipelineIndex - imagePipelineIndex

\* Lines 321-323: the host channel the result is read back into.
ReadBackIndex == imagePipelineIndex

Merge_ReadImagePipeline ==
    /\ pc = "read"
    /\ Enqueue(ReadOp("hw_IMAGEPIPELINE", "IMAGEPIPELINE", ReadBackIndex))
    /\ pc' = "finish"
    /\ UNCHANGED <<filmVars, channel_IMAGEPIPELINEs, contextVars, bufferVars,
                   kernelVars, localVars, executed, atCall, returned>>

\* hardwareDevice->FinishQueue() returns once the device has run every
\* operation of its queue.
QueueFinished == queue = <<>>

\* Faulty variant: the call returns without draining the queue.
Merge_FinishQueue_NoWait ==
    /\ pc = "finish"
    /\ trace' = Append(trace, Op("finish", "queue", "", 0, 0, <<>>))
    /\ returned' = Append(returned,
           [index |-> imagePipelineIndex,
            result |-> channel_IMAGEPIPELINEs[imagePipelineIndex + 1]])
    /\ pc' = "idle"
    /\ UNCHANGED <<filmVars, channel_IMAGEPIPELINEs, contextVars, bufferVars,
                   kernelVars, queue, localVars, executed, atCall>>

\* Line 325, and the return.
Merge_FinishQueue ==
    /\ pc = "finish"
    /\ QueueFinished
    /\ trace' = Append(trace, Op("finish", "queue", "", 0, 0, <<>>))
    /\ returned' = Append(returned,
           [index |-> imagePipelineIndex,
            result |-> channel_IMAGEPIPELINEs[imagePipelineIndex + 1]])
    /\ pc' = "idle"
    /\ UNCHANGED <<filmVars, channel_IMAGEPIPELINEs, contextVars, bufferVars,
                   kernelVars, queue, localVars, executed, atCall>>

\* ------------------------------------------------------ Film::DeleteHWContext

\* Faulty variant: the kernel is not deleted.
DeletedKernel_Kept(kernel) == [kernel EXCEPT !.state = kernel.state]

\* delete kernel: the object is gone (deleting nullptr does nothing), the
\* pointer is left as it is.
DeletedKernel(kernel) ==
    [kernel EXCEPT !.state = IF kernel.state = "null" THEN "null" ELSE "deleted"]

\* Faulty variant: the release is not guarded by the device handle.
HasHardwareDevice_Always == hardwareDevice = hardwareDevice

\* Line 123: if (hardwareDevice).
HasHardwareDevice == hardwareDevice # NullDevice

\* One statement of DeleteHWContext: what it does and to which member.
Release(what, member) == [what |-> what, member |-> member]

\* Faulty variant: the context and the dataset are deleted first.
ReleaseOrder_ContextFirst ==
    <<Release("delete", "ctx"), Release("delete", "dataSet")>> \o
    (IF HasHardwareDevice
     THEN <<Release("GetUsedMemory", "hardwareDevice"),
            Release("delete", "mergeInitializeKernel"),
            Release("delete", "mergeRADIANCE_PER_PIXEL_NORMALIZEDKernel"),
            Release("delete", "mergeRADIANCE_PER_SCREEN_NORMALIZEDKernel"),
            Release("delete", "mergeFinalizeKernel"),
            Release("FreeBuffer", "hw_IMAGEPIPELINE"),
            Release("FreeBuffer", "hw_ALPHA"),
            Release("FreeBuffer", "hw_OBJECT_ID"),
            Release("FreeBuffer", "hw_mergeBuffer")>>
     ELSE <<>>)

\* Lines 123-140: the statements DeleteHWContext runs, in their order.
ReleaseOrder ==
    (IF HasHardwareDevice
     THEN <<Release("GetUsedMemory", "hardwareDevice"),
            Release("delete", "mergeInitializeKernel"),
            Release("delete", "mergeRADIANCE_PER_PIXEL_NORMALIZEDKernel"),
            Release("delete", "mergeRADIANCE_PER_SCREEN_NORMALIZEDKernel"),
            Release("delete", "mergeFinalizeKernel"),
            Release("FreeBuffer", "hw_IMAGEPIPELINE"),
            Release("FreeBuffer", "hw_ALPHA"),
            Release("FreeBuffer", "hw_OBJECT_ID"),
            Release("FreeBuffer", "hw_mergeBuffer")>>
     ELSE <<>>) \o
    <<Release("delete", "ctx"), Release("delete", "dataSet")>>

\* The kernels are deleted and their pointers left as they are; FreeBuffer
\* frees a buffer and nulls its handle; ctx and dataSet are deleted (deleting
\* nullptr does nothing) and their pointers left as they are.
DeleteHWContext ==
    /\ pc = "idle"
    /\ IF HasHardwareDevice
       THEN /\ mergeInitializeKernel' = DeletedKernel(mergeInitializeKernel)
            /\ mergeRADIANCE_PER_PIXEL_NORMALIZEDKernel' =
                   DeletedKernel(mergeRADIANCE_PER_PIXEL_NORMALIZEDKernel)
            /\ mergeRADIANCE_PER_SCREEN_NORMALIZEDKernel' =
                   DeletedKernel(mergeRADIANCE_PER_SCREEN_NORMALIZEDKernel)
            /\ mergeFinalizeKernel' = DeletedKernel(mergeFinalizeKernel)
            /\ hw_IMAGEPIPELINE' = NullBuffer
            /\ hw_ALPHA' = NullBuffer
            /\ hw_OBJECT_ID' = NullBuffer
            /\ hw_mergeBuffer' = NullBuffer
       ELSE UNCHANGED <<bufferVars, kernelVars>>
    /\ ctx' = IF ctx = "null" THEN "null" ELSE "deleted"
    /\ dataSet' = IF dataSet = "null" THEN "null" ELSE "deleted"
    /\ released' = ReleaseOrder
    /\ pc' = "destroyed"
    /\ UNCHANGED <<filmVars, channel_IMAGEPIPELINEs, hardwareDevice, queue,
                   localVars, historyVars>>

\* ------------------------------------------------------------ specification

Next ==
    \/ CreateHWContext
    \/ AllocateHWBuffers
    \/ CompileHWKernels
    \/ \E k \in 0..MaxPipelines : Merge_WriteImagePipeline(k)
    \/ Merge_Initialize
    \/ PPN_Done
    \/ PPN_Skip
    \/ PPN_Write
    \/ PPN_SetKernelArg
    \/ PPN_EnqueueKernel
    \/ PSN_Absent
    \/ PSN_Factor
    \/ PSN_Done
    \/ PSN_Skip
    \/ PSN_Write
    \/ PSN_SetKernelArg
    \/ PSN_EnqueueKernel
    \/ Merge_Finalize
    \/ Merge_ReadImagePipeline
    \/ Merge_FinishQueue
    \/ DeviceExecute
    \/ DeleteHWContext

Spec == Init /\ [][Next]_vars

\* The statements of MergeSampleBuffersHW after the first: the controlling
\* thread runs a call to its end.
MergeStep ==
    \/ Merge_Initialize
    \/ PPN_Done
    \/ PPN_Skip
    \/ PPN_Write
    \/ PPN_SetKernelArg
    \/ PPN_EnqueueKernel
    \/ PSN_Absent
    \/ PSN_Factor
    \/ PSN_Done
    \/ PSN_Skip
    \/ PSN_Write
    \/ PSN_SetKernelArg
    \/ PSN_EnqueueKernel
    \/ Merge_Finalize
    \/ Merge_ReadImagePipeline
    \/ Merge_FinishQueue

\* The thread inside a call keeps running and the device keeps running its
\* queue.
FairSpec == Spec /\ WF_vars(MergeStep) /\ WF_vars(DeviceExecute)

\* ------------------------------------------- merges for any target index

\* Lines 261-267 for a target index with no host image-pipeline channel:
\* WriteHWBuffer_IMAGEPIPELINE evaluates channel_IMAGEPIPELINEs[index] past
\* the end of the vector, which is undefined: the call faults, or goes on
\* with whatever pointer it read ("wild"); neither is followed further.
Merge_WriteImagePipeline_OutOfRange(k) ==
    /\ pc = "idle"
    /\ mergeInitializeKernel.state = "live"
    /\ merges < MaxMerges
    /\ k >= Len(channel_IMAGEPIPELINEs)
    /\ imagePipelineIndex' = k
    /\ atCall' = HostState
    /\ executed' = <<>>
    /\ trace' = <<>>
    /\ pc' \in {"fault", "wild"}
    /\ UNCHANGED <<filmVars, channel_IMAGEPIPELINEs, contextVars, bufferVars,
                   kernelVars, queue, i, factor, returned>>

AnyIndexNext ==
    \/ Next
    \/ \E k \in 0..MaxPipelines : Merge_WriteImagePipeline_OutOfRange(k)

AnyIndexSpec == Init /\ [][AnyIndexNext]_vars

\* ------------------------------------- the life cycle on any platform

\* The types DeviceDescription::Filter(DEVICE_TYPE_ALL_HARDWARE) lets through.
DeviceTypes ==
    {DEVICE_TYPE_CUDA_GPU, DEVICE_TYPE_OPENCL_GPU, DEVICE_TYPE_OPENCL_CPU}

\* Every list of at most MaxDescs descriptions.
DescLists == UNION {[1..n -> DeviceTypes] : n \in 0..MaxDescs}

\* A film of one light group and no image pipeline after SetUpHW, once its
\* properties have set hwEnable and hwDeviceIndex, on any platform.
LifecycleInit ==
    /\ InitFilm
    /\ radianceGroupCount = 1
    /\ imagePipelines = <<>>
    /\ samplesCounts = 0
    /\ hwEnable \in BOOLEAN
    /\ hwDeviceIndex \in -1..MaxDescs
    /\ ctx = "null"
    /\ dataSet = "null"
    /\ hardwareDevice = NullDevice
    /\ hw_IMAGEPIPELINE = NullBuffer
    /\ hw_ALPHA = NullBuffer
    /\ hw_OBJECT_ID = NullBuffer
    /\ hw_mergeBuffer = NullBuffer
    /\ mergeInitializeKernel = NullKernel
    /\ mergeRADIANCE_PER_PIXEL_NORMALIZEDKernel = NullKernel
    /\ mergeRADIANCE_PER_SCREEN_NORMALIZEDKernel = NullKernel
    /\ mergeFinalizeKernel = NullKernel
    /\ descs \in DescLists
    /\ queue = <<>>
    /\ released = <<>>
    /\ pc = "idle"
    /\ imagePipelineIndex = 0
    /\ i = 0
    /\ factor = Rat(1)
    /\ trace = <<>>
    /\ executed = <<>>
    /\ atCall = <<>>
    /\ returned = <<>>

\* Construction and destruction of the hardware side of the film.
LifecycleNext ==
    \/ CreateHWContext
    \/ AllocateHWBuffers
    \/ CompileHWKernels
    \/ DeleteHWContext

LifecycleSpec == LifecycleInit /\ [][LifecycleNext]_vars

\* ------------------------------------------------- the reference (host) merge

\* The configuration a target index stands for: its pipeline's flags and
\* scales, or, without a pipeline of that index, every group enabled at unit
\* scale.
TargetEnabled(k, g) ==
    IF k < Len(imagePipelines)
    THEN imagePipelines[k + 1].radianceChannelScales[g + 1].enabled
    ELSE TRUE

TargetScale(k, g) ==
    IF k < Len(imagePipelines)
    THEN imagePipelines[k + 1].radianceChannelScales[g + 1].scale
    ELSE <<Rat(1), Rat(1), Rat(1)>>

\* r is the quotient pixelCount / samplesCounts, or 1 without samples.
IsReferenceFactor(r) ==
    IF samplesCounts = 0 THEN r = <<1, 1>>
    ELSE /\ r[2] > 0
         /\ r[1] * samplesCounts = r[2] * pixelCount
         /\ GCD(r[1], r[2]) = 1

ReferenceFactor ==
    CHOOSE r \in (0..pixelCount) \X (1..(samplesCounts + 1)) :
        IsReferenceFactor(r)

\* Sum over the groups 0..n-1 that are in the set on of
\* weight * scale(g) * chan[g](p), at pixel p.
RECURSIVE WeightedSum(_, _, _, _, _, _)
WeightedSum(k, on, chan, weight, p, n) ==
    IF n = 0 THEN Black
    ELSE SAdd(WeightedSum(k, on, chan, weight, p, n - 1),
              IF (n - 1) \in on
              THEN SScale(weight, SMul(TargetScale(k, n - 1), chan[n][p]))
              ELSE Black)

\* The reference merge of target k with the groups of the set on, over the
\* given per-pixel-normalized and per-screen-normalized channels.
ReferenceMergeOf(k, on, perPixel, perScreen) ==
    [p \in 1..pixelCount |->
        SAdd(IF HasChannel(RADIANCE_PER_PIXEL_NORMALIZED)
             THEN WeightedSum(k, on, perPixel, Rat(1), p, radianceGroupCount)
             ELSE Black,
             IF HasChannel(RADIANCE_PER_SCREEN_NORMALIZED)
             THEN WeightedSum(k, on, perScreen, ReferenceFactor, p,
                              radianceGroupCount)
             ELSE Black)]

EnabledGroups(k) == {g \in 0..(radianceGroupCount - 1) : TargetEnabled(k, g)}

ReferenceMerge(k) ==
    ReferenceMergeOf(k, EnabledGroups(k),
                     channel_RADIANCE_PER_PIXEL_NORMALIZEDs,
                     channel_RADIANCE_PER_SCREEN_NORMALIZEDs)

\* The call that returned last, while no other call has begun.
Returned == pc = "idle" /\ returned # <<>>

LastReturned == returned[Len(returned)]

\* ------------------------------------------------------------------ claims

\* C1: after MergeSampleBuffersHW(k) returns, the host image-pipeline channel
\* of k holds at every pixel the sum over the enabled groups of scale *
\* per-pixel-normalized value plus the sum over the enabled groups of factor *
\* scale * per-screen-normalized value, each sum taken only if the channel
\* kind exists.
C1_MergeEqualsReference ==
    Returned =>
        /\ \A n \in 1..Len(returned) :
              returned[n].result = ReferenceMerge(returned[n].index)
        /\ channel_IMAGEPIPELINEs[LastReturned.index + 1] =
               ReferenceMerge(LastReturned.index)

\* C1 witness: a merge of a configured target returned, both radiance
\* channels present, two groups enabled, three per-screen samples.
C1_Witness ==
    /\ Returned
    /\ LastReturned.index < Len(imagePipelines)
    /\ HasChannel(RADIANCE_PER_PIXEL_NORMALIZED)
    /\ HasChannel(RADIANCE_PER_SCREEN_NORMALIZED)
    /\ Cardinality(EnabledGroups(LastReturned.index)) >= 2
    /\ samplesCounts = 3
    /\ LastReturned.result # [p \in 1..pixelCount |-> Black]

\* The channels chan with the channel of group g filled with zeros.
Zeroed(chan, g) ==
    IF chan = <<>> THEN chan
    ELSE [chan EXCEPT ![g + 1] = [p \in 1..pixelCount |-> Black]]

IsScratchWrite(op) == op.type = "write" /\ op.obj = "hw_mergeBuffer"

IsAccumulate(op) ==
    /\ op.type = "kernel"
    /\ op.obj \in {"mergeRADIANCE_PER_PIXEL_NORMALIZEDKernel",
                   "mergeRADIANCE_PER_SCREEN_NORMALIZEDKernel"}

IsSetArg(op, name) == op.type = "setarg" /\ op.obj = name

Count(seq, Test(_)) == Cardinality({n \in 1..Len(seq) : Test(seq[n])})

\* C2: a disabled group is excluded entirely: the result of a merge with
\* group g disabled is the reference merge with g enabled and both of g's
\* channels zeroed; and the merge issues no scratch upload and no accumulate
\* dispatch for g, and no scale rebinding beyond the three of each uploaded
\* group, in either pass.
C2_DisabledGroupExcluded ==
    /\ Returned =>
          \A n \in 1..Len(returned) : \A g \in 0..(radianceGroupCount - 1) :
              ~TargetEnabled(returned[n].index, g) =>
                  returned[n].result =
                      ReferenceMergeOf(returned[n].index,
                          EnabledGroups(returned[n].index) \cup {g},
                          Zeroed(channel_RADIANCE_PER_PIXEL_NORMALIZEDs, g),
                          Zeroed(channel_RADIANCE_PER_SCREEN_NORMALIZEDs, g))
    /\ \A n \in 1..Len(trace) :
          (IsScratchWrite(trace[n]) \/ IsAccumulate(trace[n])) =>
              TargetEnabled(imagePipelineIndex, trace[n].idx)
    /\ LET PPNWrite(op) ==
               IsScratchWrite(op) /\ op.kind = RADIANCE_PER_PIXEL_NORMALIZED
           PSNWrite(op) ==
               IsScratchWrite(op) /\ op.kind = RADIANCE_PER_SCREEN_NORMALIZED
           PPNArg(op) ==
               IsSetArg(op, "mergeRADIANCE_PER_PIXEL_NORMALIZEDKernel")
           PSNArg(op) ==
               IsSetArg(op, "mergeRADIANCE_PER_SCREEN_NORMALIZEDKernel")
       IN  /\ Count(trace, PPNArg) <= 3 * Count(trace, PPNWrite)
           /\ Count(trace, PSNArg) <= 3 * Count(trace, PSNWrite)
           /\ Count(trace, PPNWrite) + Count(trace, PSNWrite)
                  <= 2 * Cardinality(EnabledGroups(imagePipelineIndex))

\* C2 witness: a merge returned for a target with one group disabled and
\* another enabled, both radiance channels present.
C2_Witness ==
    /\ Returned
    /\ HasChannel(RADIANCE_PER_PIXEL_NORMALIZED)
    /\ HasChannel(RADIANCE_PER_SCREEN_NORMALIZED)
    /\ \E g, h \in 0..(radianceGroupCount - 1) :
          /\ ~TargetEnabled(LastReturned.index, g)
          /\ TargetEnabled(LastReturned.index, h)
    /\ Count(trace, IsAccumulate) = 2

\* C3: two calls in a row for the same target, inputs unchanged, leave the
\* target's host image-pipeline channel with the same contents.
C3_MergeIdempotent ==
    \A n \in 1..(Len(returned) - 1) :
        returned[n].index = returned[n + 1].index =>
            returned[n].result = returned[n + 1].result

\* C3 witness: the second of two calls in a row for one target returned, and
\* what it left differs from the channel's contents before the first call.
C3_Witness ==
    /\ Returned
    /\ Len(returned) >= 2
    /\ returned[Len(returned) - 1].index = LastReturned.index
    /\ LastReturned.result # ChannelOf("IMAGEPIPELINE", LastReturned.index)
    /\ LastReturned.result # [p \in 1..pixelCount |-> Black]

PPNKernel == "mergeRADIANCE_PER_PIXEL_NORMALIZEDKernel"

PSNKernel == "mergeRADIANCE_PER_SCREEN_NORMALIZEDKernel"

IsKernel(op, name) == op.type = "kernel" /\ op.obj = name

\* An upload or a dispatch of the per-pixel-normalized pass.
IsPPNOp(op) ==
    \/ IsScratchWrite(op) /\ op.kind = RADIANCE_PER_PIXEL_NORMALIZED
    \/ IsKernel(op, PPNKernel)

\* An upload or a dispatch of the per-screen-normalized pass.
IsPSNOp(op) ==
    \/ IsScratchWrite(op) /\ op.kind = RADIANCE_PER_SCREEN_NORMALIZED
    \/ IsKernel(op, PSNKernel)

IsPPNDispatch(op) == IsKernel(op, PPNKernel)

\* In seq no operation of the per-pixel-normalized pass follows one of the
\* per-screen-normalized pass, and the first operation of the latter comes
\* after the dispatches of all enabled groups of the former.
PassesInOrder(seq) ==
    /\ \A a \in {n \in 1..Len(seq) : IsPSNOp(seq[n])} :
          \A b \in {n \in 1..Len(seq) : IsPPNOp(seq[n])} : b < a
    /\ (\E a \in 1..Len(seq) : IsPSNOp(seq[a])) =>
          Count(seq, IsPPNDispatch) =
              IF HasChannel(RADIANCE_PER_PIXEL_NORMALIZED)
              THEN Cardinality(EnabledGroups(imagePipelineIndex)) ELSE 0

\* C4: within one call every per-pixel-normalized accumulate dispatch, for
\* all enabled groups, is enqueued, and executed by the in-order queue,
\* before the first per-screen-normalized upload or dispatch; none follows a
\* per-screen-normalized one.
C4_PerPixelBeforePerScreen ==
    /\ PassesInOrder(trace)
    /\ PassesInOrder(executed)

\* C4 witness: the device has run a per-screen-normalized dispatch of a call
\* that dispatched two per-pixel-normalized accumulations.
C4_Witness ==
    /\ Count(executed, IsPPNDispatch) >= 2
    /\ \E a \in 1..Len(executed) : IsKernel(executed[a], PSNKernel)

IsImagePipelineWrite(op) == op.type = "write" /\ op.obj = "hw_IMAGEPIPELINE"

IsInitialize(op) == IsKernel(op, "mergeInitializeKernel")

IsFinalize(op) == IsKernel(op, "mergeFinalizeKernel")

IsRead(op) == op.type = "read"

IsFinish(op) == op.type = "finish"

\* C5: every call issues, exactly once and in this order: the upload of the
\* target's host image-pipeline channel, the initialize dispatch, the
\* accumulate dispatches, the finalize dispatch, the download into the same
\* target's host channel; no accumulate comes before initialize or after
\* finalize.
C5_FramingOnceInOrder ==
    LET n == Len(trace) IN
    /\ n >= 1 =>
          trace[1] = WriteOp("hw_IMAGEPIPELINE", "IMAGEPIPELINE",
                             imagePipelineIndex)
    /\ n >= 2 => IsInitialize(trace[2])
    /\ Count(trace, IsImagePipelineWrite) <= 1
    /\ Count(trace, IsInitialize) <= 1
    /\ Count(trace, IsFinalize) <= 1
    /\ Count(trace, IsRead) <= 1
    /\ \A a \in 1..n :
          /\ IsAccumulate(trace[a]) => a > 2
          /\ IsFinalize(trace[a]) =>
                \A b \in (a + 1)..n : ~IsAccumulate(trace[b])
          /\ IsRead(trace[a]) =>
                /\ a > 3
                /\ IsFinalize(trace[a - 1])
                /\ trace[a] = ReadOp("hw_IMAGEPIPELINE", "IMAGEPIPELINE",
                                     imagePipelineIndex)
          /\ IsFinish(trace[a]) => a > 4 /\ IsRead(trace[a - 1]) /\ a = n
    /\ Returned => IsFinish(trace[n])

\* C5 witness: a call that dispatched accumulations returned.
C5_Witness ==
    /\ Returned
    /\ Count(trace, IsAccumulate) >= 2
    /\ IsFinalize(trace[Len(trace) - 2])

\* The scale a dispatch for group g of the given kernel must carry.
ExpectedScale(name, g) ==
    IF name = PPNKernel THEN TargetScale(imagePipelineIndex, g)
    ELSE SScale(ReferenceFactor, TargetScale(imagePipelineIndex, g))

KindOf(name) ==
    IF name = PPNKernel THEN RADIANCE_PER_PIXEL_NORMALIZED
    ELSE RADIANCE_PER_SCREEN_NORMALIZED

\* C6: every accumulate dispatch for group g is immediately preceded by the
\* upload of g's channel of that kind into the scratch buffer and by the
\* rebinding of slots 4, 5 and 6 of that kernel to g's scale (unit scale
\* without a pipeline, factor times scale in the per-screen-normalized pass),
\* which the dispatch carries; the device runs the dispatch right after that
\* upload; groups are visited in increasing index order.
C6_NoStaleBinding ==
    /\ \A n \in 1..Len(trace) :
          IsAccumulate(trace[n]) =>
              LET op == trace[n]
                  scale == ExpectedScale(op.obj, op.idx)
              IN  /\ n > 4
                  /\ trace[n - 4] =
                         WriteOp("hw_mergeBuffer", KindOf(op.obj), op.idx)
                  /\ trace[n - 3] = SetArgOp(op.obj, 4, scale[1])
                  /\ trace[n - 2] = SetArgOp(op.obj, 5, scale[2])
                  /\ trace[n - 1] = SetArgOp(op.obj, 6, scale[3])
                  /\ op.val = scale
    /\ \A n \in 1..Len(executed) :
          IsAccumulate(executed[n]) =>
              /\ n > 1
              /\ executed[n - 1] =
                     WriteOp("hw_mergeBuffer", KindOf(executed[n].obj),
                             executed[n].idx)
    /\ \A a, b \in {n \in 1..Len(trace) : IsAccumulate(trace[n])} :
          (a < b /\ trace[a].obj = trace[b].obj) =>
              trace[a].idx < trace[b].idx

\* C6 witness: a call for a configured target returned after dispatching, in
\* each pass, accumulations for two groups with different scales.
C6_Witness ==
    /\ Returned
    /\ imagePipelineIndex < Len(imagePipelines)
    /\ Count(trace, IsAccumulate) = 4
    /\ ExpectedScale(PSNKernel, 0) # ExpectedScale(PSNKernel, 1)
    /\ ExpectedScale(PSNKernel, 0) # ExpectedScale(PPNKernel, 0)

IsDeviceOp(op) == op.type \in {"write", "kernel", "read"}

InMerge == pc \notin {"idle", "destroyed"}

\* C7: when MergeSampleBuffersHW returns, every upload, dispatch and the
\* download it enqueued has been run by the device; the queue drain is the
\* last statement of the call and the only one that can block (every other
\* statement can run whatever the state of the queue); with the thread and
\* the device running, every call returns.
C7_ReturnsAfterDrain ==
    /\ [](Returned =>
            /\ queue = <<>>
            /\ IsFinish(trace[Len(trace)])
            /\ executed = SelectSeq(trace, IsDeviceOp))
    /\ []((InMerge /\ ~ENABLED MergeStep) => (pc = "finish" /\ queue # <<>>))
    /\ [](InMerge => <>Returned)

\* C7 witness: the thread is blocked in the queue drain while the device
\* still has the download and at least three more operations to run.
C7_Witness ==
    /\ pc = "finish"
    /\ Len(queue) >= 4
    /\ IsRead(queue[Len(queue)])
    /\ ~ENABLED MergeStep

\* C8: a call for target k writes host memory only in the image-pipeline
\* channel of k: the image-pipeline channels of the other targets, alpha,
\* object-id, the radiance channels of every group, the pipelines' scales
\* and enable flags and the sample counts are as they were at the call.
C8_MergeFrame ==
    trace # <<>> =>
        /\ Len(channel_IMAGEPIPELINEs) = Len(atCall.imagepipelines)
        /\ \A j \in 1..Len(channel_IMAGEPIPELINEs) :
              j # imagePipelineIndex + 1 =>
                  channel_IMAGEPIPELINEs[j] = atCall.imagepipelines[j]
        /\ channel_ALPHA = atCall.alpha
        /\ channel_OBJECT_ID = atCall.objectId
        /\ channel_RADIANCE_PER_PIXEL_NORMALIZEDs = atCall.perPixel
        /\ channel_RADIANCE_PER_SCREEN_NORMALIZEDs = atCall.perScreen
        /\ imagePipelines = atCall.pipelines
        /\ samplesCounts = atCall.samples

\* C8 witness: a call for target 1 returned and changed its channel, and a
\* channel of another target exists.
C8_Witness ==
    /\ Returned
    /\ imagePipelineIndex = 1
    /\ channel_IMAGEPIPELINEs[2] # atCall.imagepipelines[2]
    /\ channel_IMAGEPIPELINEs[1] = atCall.imagepipelines[1]

\* The groups seq holds a dispatch of the kernel for.
DispatchedGroups(seq, name) ==
    {seq[n].idx : n \in {m \in 1..Len(seq) : IsKernel(seq[m], name)}}

AllGroups == 0..(radianceGroupCount - 1)

\* C9: with an index out of range of the image pipelines every group is
\* dispatched, with scale (1, 1, 1) in the per-pixel-normalized pass and
\* (factor, factor, factor) in the per-screen-normalized pass, whatever the
\* pipelines store; with an index in range the groups dispatched are those
\* the pipeline of that index enables, with that pipeline's scales.
C9_NeutralTarget ==
    LET k == imagePipelineIndex
        Kernels == {name \in {PPNKernel, PSNKernel} : HasChannel(KindOf(name))}
        Weight(name) == IF name = PPNKernel THEN Rat(1) ELSE factor
    IN
    /\ Returned =>
          \A name \in Kernels :
              DispatchedGroups(trace, name) =
                  IF k >= Len(imagePipelines) THEN AllGroups
                  ELSE {g \in AllGroups :
                          imagePipelines[k + 1].radianceChannelScales[g + 1]
                              .enabled}
    /\ \A n \in 1..Len(trace) :
          IsAccumulate(trace[n]) =>
              trace[n].val =
                  IF k >= Len(imagePipelines)
                  THEN <<Weight(trace[n].obj), Weight(trace[n].obj),
                         Weight(trace[n].obj)>>
                  ELSE SScale(Weight(trace[n].obj),
                              imagePipelines[k + 1]
                                  .radianceChannelScales[trace[n].idx + 1]
                                  .scale)

\* C9 witness: a call with an index past the only pipeline, which disables a
\* group, returned after dispatching every group in both passes.
C9_Witness ==
    /\ Returned
    /\ Len(imagePipelines) = 1
    /\ imagePipelineIndex = 1
    /\ \E g \in AllGroups : ~TargetEnabled(0, g)
    /\ radianceGroupCount >= 2
    /\ Count(trace, IsAccumulate) = 2 * radianceGroupCount

IsPSNDispatch(op) == IsKernel(op, PSNKernel)

\* C10: in the per-screen-normalized pass the factor is pixelCount /
\* sampleCount when the sample count is positive and exactly 1 when it is
\* zero (no quotient with a zero divisor is ever formed); it is the same for
\* all groups of a call; with a zero sample count the scale bound for each
\* enabled group is its configured scale and the call runs its full
\* sequence.
C10_FactorGuard ==
    /\ factor[2] > 0
    /\ pc \in {"psn", "psn_args", "psn_enqueue"} => IsReferenceFactor(factor)
    /\ \A n \in 1..Len(trace) :
          IsPSNDispatch(trace[n]) =>
              /\ IsReferenceFactor(factor)
              /\ trace[n].val =
                     SScale(factor,
                            TargetScale(imagePipelineIndex, trace[n].idx))
              /\ samplesCounts = 0 =>
                     trace[n].val =
                         TargetScale(imagePipelineIndex, trace[n].idx)
    /\ (Returned /\ HasChannel(RADIANCE_PER_SCREEN_NORMALIZED)) =>
          /\ DispatchedGroups(trace, PSNKernel) =
                 EnabledGroups(imagePipelineIndex)
          /\ IsFinalize(trace[Len(trace) - 2])
          /\ IsRead(trace[Len(trace) - 1])

\* C10 witness: a call returned that ran the per-screen-normalized pass for
\* two groups with a sample count of zero.
C10_Witness ==
    /\ Returned
    /\ samplesCounts = 0
    /\ Count(trace, IsPSNDispatch) >= 2

\* ------------------------------------------------------ device selection

\* The hardware side was built: CreateHWContext has run.
Built == ctx # "null"

\* Line 68: hwDeviceIndex names one of the descriptions.
PinnedInRange == hwDeviceIndex >= 0 /\ hwDeviceIndex < Len(descs)

\* The indices of the descriptions of a type, and the least of a set.
IndicesOf(type) == {n \in 0..(Len(descs) - 1) : descs[n + 1] = type}

FirstOf(S) == CHOOSE n \in S : \A m \in S : n <= m

LastOf(S) == CHOOSE n \in S : \A m \in S : n >= m

\* C11: with hardware merging enabled and no in-range index pinned, if the
\* list holds a CUDA GPU the device selected is the first CUDA GPU of the
\* list, wherever OpenCL GPUs stand.
C11_PreferredFamilyFirst ==
    (Built /\ hwEnable /\ ~PinnedInRange
        /\ IndicesOf(DEVICE_TYPE_CUDA_GPU) # {})
    => /\ ctx \in {"started", "deleted"}
       /\ hardwareDevice.desc = FirstOf(IndicesOf(DEVICE_TYPE_CUDA_GPU))
       /\ hardwareDevice.type = DEVICE_TYPE_CUDA_GPU

\* C11 witness: built on a list with an OpenCL GPU before the first CUDA GPU
\* and another GPU after it.
C11_Witness ==
    /\ ctx = "started"
    /\ hwEnable
    /\ ~PinnedInRange
    /\ descs = <<DEVICE_TYPE_OPENCL_GPU, DEVICE_TYPE_CUDA_GPU,
                 DEVICE_TYPE_OPENCL_GPU>>
    /\ hardwareDevice.desc = 1

\* C12: with hardware merging enabled, no in-range index pinned, no CUDA GPU
\* and two or more OpenCL GPUs in the list, the device selected is the first
\* OpenCL GPU of the list.
C12_SecondaryFamilyFirst ==
    (Built /\ hwEnable /\ ~PinnedInRange
        /\ IndicesOf(DEVICE_TYPE_CUDA_GPU) = {}
        /\ Cardinality(IndicesOf(DEVICE_TYPE_OPENCL_GPU)) >= 2)
    => hardwareDevice.desc = FirstOf(IndicesOf(DEVICE_TYPE_OPENCL_GPU))

\* What the preference scan leaves selected: the first CUDA GPU, or without
\* one an OpenCL GPU, or without either nothing.
ScanOutcome ==
    IF IndicesOf(DEVICE_TYPE_CUDA_GPU) # {}
    THEN hardwareDevice.desc = FirstOf(IndicesOf(DEVICE_TYPE_CUDA_GPU))
    ELSE IF IndicesOf(DEVICE_TYPE_OPENCL_GPU) # {}
    THEN hardwareDevice.desc \in IndicesOf(DEVICE_TYPE_OPENCL_GPU)
    ELSE hardwareDevice = NullDevice

\* C13 as stated: a pinned in-range index selects exactly that description
\* whatever the hardware-enable flag; a pinned index out of range is ignored
\* and the preference scan decides.
C13_PinnedUnconditional ==
    Built =>
        IF PinnedInRange
        THEN /\ hardwareDevice.desc = hwDeviceIndex
             /\ hardwareDevice.type = descs[hwDeviceIndex + 1]
        ELSE hwEnable => ScanOutcome

\* C13 amended: with hardware merging enabled a pinned in-range index
\* selects exactly that description, whatever its type and the other
\* descriptions, and a pinned index out of range leaves the choice to the
\* preference scan; with hardware merging disabled nothing is selected.
C13_PinnedWhenEnabled ==
    Built =>
        IF hwEnable
        THEN IF PinnedInRange
             THEN /\ hardwareDevice.desc = hwDeviceIndex
                  /\ hardwareDevice.type = descs[hwDeviceIndex + 1]
                  /\ ctx \in {"started", "deleted"}
             ELSE ScanOutcome
        ELSE /\ hardwareDevice = NullDevice
             /\ ctx \in {"created", "deleted"}

\* C13 witness: a CPU description pinned at index 0 is selected although the
\* list holds a CUDA GPU.
C13_Witness ==
    /\ ctx = "started"
    /\ hwEnable
    /\ hwDeviceIndex = 0
    /\ descs[1] = DEVICE_TYPE_OPENCL_CPU
    /\ IndicesOf(DEVICE_TYPE_CUDA_GPU) # {}
    /\ hardwareDevice = [desc |-> 0, type |-> DEVICE_TYPE_OPENCL_CPU]

\* ------------------------------------------------------------- life cycle

NoBuffers ==
    /\ hw_IMAGEPIPELINE = NullBuffer
    /\ hw_ALPHA = NullBuffer
    /\ hw_OBJECT_ID = NullBuffer
    /\ hw_mergeBuffer = NullBuffer

NoKernels ==
    /\ mergeInitializeKernel = NullKernel
    /\ mergeRADIANCE_PER_PIXEL_NORMALIZEDKernel = NullKernel
    /\ mergeRADIANCE_PER_SCREEN_NORMALIZEDKernel = NullKernel
    /\ mergeFinalizeKernel = NullKernel

\* The list holds no GPU-class description.
NoGPU ==
    /\ IndicesOf(DEVICE_TYPE_CUDA_GPU) = {}
    /\ IndicesOf(DEVICE_TYPE_OPENCL_GPU) = {}

\* C14 as stated: a construction step that leaves no device selected leaves
\* no context, no dataset, no buffers and no kernels.
C14_InertNoContext ==
    [][(pc = "idle" /\ pc' = "idle" /\ hardwareDevice' = NullDevice)
        => /\ ctx' = "null"
           /\ dataSet' = "null"
           /\ NoBuffers'
           /\ NoKernels']_vars

\* C14 amended: CreateHWContext selects no device when the list is empty, or
\* holds no GPU-class description and none is pinned, or hardware merging is
\* disabled; as long as no device is selected there is no dataset, no buffer
\* and no kernel, and the context, which CreateHWContext creates all the
\* same, is never started.
C14_InertUnstarted ==
    /\ (Built /\ (Len(descs) = 0 \/ (NoGPU /\ ~PinnedInRange) \/ ~hwEnable))
       => hardwareDevice = NullDevice
    /\ (Built /\ pc = "idle" /\ hardwareDevice = NullDevice)
       => ctx = "created"
    /\ hardwareDevice = NullDevice
       => /\ ctx # "started"
          /\ dataSet = "null"
          /\ NoBuffers
          /\ NoKernels

\* C14 witness: built, with hardware merging enabled, on a list of CPU
\* descriptions only.
C14_Witness ==
    /\ ctx = "created"
    /\ hwEnable
    /\ Len(descs) >= 2
    /\ NoGPU
    /\ hardwareDevice = NullDevice

\* DeleteHWContext has run.
Destroyed == pc = "destroyed"

\* The positions in the release log of the statements about a member.
ReleasedAt(what, member) ==
    {n \in 1..Len(released) : released[n] = Release(what, member)}

KernelMembers ==
    {"mergeInitializeKernel", "mergeRADIANCE_PER_PIXEL_NORMALIZEDKernel",
     "mergeRADIANCE_PER_SCREEN_NORMALIZEDKernel", "mergeFinalizeKernel"}

BufferMembers == {"hw_IMAGEPIPELINE", "hw_ALPHA", "hw_OBJECT_ID", "hw_mergeBuffer"}

KernelsGone ==
    /\ mergeInitializeKernel.state # "live"
    /\ mergeRADIANCE_PER_PIXEL_NORMALIZEDKernel.state # "live"
    /\ mergeRADIANCE_PER_SCREEN_NORMALIZEDKernel.state # "live"
    /\ mergeFinalizeKernel.state # "live"

\* C15: DeleteHWContext on a core built with a device deletes each of the four
\* kernels and frees each of the four buffers once, all before it deletes the
\* context, and deletes the context and the dataset after them; afterwards
\* every buffer handle is null and no kernel or buffer is left alive.
C15_ReleaseBeforeContext ==
    (Destroyed /\ HasHardwareDevice) =>
        /\ Cardinality(ReleasedAt("delete", "ctx")) = 1
        /\ Cardinality(ReleasedAt("delete", "dataSet")) = 1
        /\ \A k \in KernelMembers :
              /\ Cardinality(ReleasedAt("delete", k)) = 1
              /\ \A n \in ReleasedAt("delete", k),
                    c \in ReleasedAt("delete", "ctx") : n < c
        /\ \A b \in BufferMembers :
              /\ Cardinality(ReleasedAt("FreeBuffer", b)) = 1
              /\ \A n \in ReleasedAt("FreeBuffer", b),
                    c \in ReleasedAt("delete", "ctx") : n < c
        /\ \A c \in ReleasedAt("delete", "ctx"),
              d \in ReleasedAt("delete", "dataSet") : c < d
        /\ NoBuffers
        /\ KernelsGone
        /\ ctx = "deleted"
        /\ dataSet = "deleted"

\* C15 witness: a core with its buffers allocated and its kernels compiled
\* has been torn down.
C15_Witness ==
    /\ Destroyed
    /\ HasHardwareDevice
    /\ mergeFinalizeKernel = DeletedKernel(CompiledKernel(3))
    /\ HasChannel(RADIANCE_PER_PIXEL_NORMALIZED)
    /\ Len(released) = 11

\* C16: DeleteHWContext on a core without a device (only set up, or built
\* with no device selected) releases no kernel, frees no buffer and does not
\* query the device: it runs the two deletions of ctx and dataSet only, and
\* every buffer and kernel handle is as SetUpHW left it.
C16_TeardownWithoutDevice ==
    (Destroyed /\ hardwareDevice = NullDevice) =>
        /\ released = <<Release("delete", "ctx"), Release("delete", "dataSet")>>
        /\ NoBuffers
        /\ NoKernels
        /\ dataSet = "null"
        /\ ctx \in {"null", "deleted"}

\* C16 witness: torn down after a build that selected no device.
C16_Witness ==
    /\ Destroyed
    /\ hardwareDevice = NullDevice
    /\ ctx = "deleted"
    /\ released # <<>>

\* The device context exists and is active: started with a selected device.
ContextActive == ctx = "started" /\ HasHardwareDevice

\* Some buffer or kernel exists; the buffers every film has and the kernels
\* all exist.
AnyBufferOrKernel ==
    \/ hw_IMAGEPIPELINE.state = "live"
    \/ hw_ALPHA.state = "live"
    \/ hw_OBJECT_ID.state = "live"
    \/ hw_mergeBuffer.state = "live"
    \/ mergeInitializeKernel.state = "live"
    \/ mergeRADIANCE_PER_PIXEL_NORMALIZEDKernel.state = "live"
    \/ mergeRADIANCE_PER_SCREEN_NORMALIZEDKernel.state = "live"
    \/ mergeFinalizeKernel.state = "live"

BuffersAndKernels ==
    /\ hw_IMAGEPIPELINE.state = "live"
    /\ mergeInitializeKernel.state = "live"
    /\ mergeRADIANCE_PER_PIXEL_NORMALIZEDKernel.state = "live"
    /\ mergeRADIANCE_PER_SCREEN_NORMALIZEDKernel.state = "live"
    /\ mergeFinalizeKernel.state = "live"

\* C17 as stated: in every state buffers and kernels exist if and only if
\* the context exists and is active.
C17_ExistIffActive ==
    /\ AnyBufferOrKernel => ContextActive
    /\ ContextActive => BuffersAndKernels

\* C17 amended: in every state a buffer or kernel exists only if the context
\* exists and is active; an active context is without buffers until
\* AllocateHWBuffers and without kernels until CompileHWKernels, and has all
\* of them whenever a merge runs; after DeleteHWContext none exists.
C17_ExistOnlyIfActive ==
    /\ AnyBufferOrKernel => ContextActive
    /\ InMerge => (ContextActive /\ BuffersAndKernels)
    /\ Destroyed => (~AnyBufferOrKernel /\ ~ContextActive)

\* C17 witness: a merge has returned on a core whose context is active and
\* whose buffers and kernels exist.
C17_Witness ==
    /\ Len(returned) >= 1
    /\ pc = "idle"
    /\ ContextActive
    /\ BuffersAndKernels
    /\ hw_mergeBuffer.state = "live"

\* ---------------------------------------------------------- scratch buffer

\* The byte sizes of the radiance channels the film has, and the largest of
\* them (0 without any).
RadianceSizes ==
    {ChannelSize(kind) :
        kind \in channels \cap {RADIANCE_PER_PIXEL_NORMALIZED,
                                RADIANCE_PER_SCREEN_NORMALIZED}}

LargestRadianceSize ==
    IF RadianceSizes = {} THEN 0
    ELSE CHOOSE m \in RadianceSizes : \A x \in RadianceSizes : x <= m

\* AllocateHWBuffers has run and DeleteHWContext has not.
Allocated == hw_IMAGEPIPELINE.state = "live"

\* C18: once allocated, the scratch buffer exists exactly if the film has a
\* radiance channel and then has the size of the largest of them; every
\* upload into it, of every group and both kinds, is of at most that size;
\* an accumulate kernel is dispatched only with the scratch buffer
\* allocated.
C18_ScratchCapacity ==
    Allocated =>
        LET capacity == hw_mergeBuffer.size
            allocated == hw_mergeBuffer.state = "live"
        IN  /\ allocated <=> (LargestRadianceSize > 0)
            /\ capacity = LargestRadianceSize
            /\ \A n \in 1..Len(trace) :
                  /\ IsScratchWrite(trace[n]) =>
                        /\ trace[n].size > 0
                        /\ trace[n].size <= capacity
                  /\ IsAccumulate(trace[n]) => allocated

\* C18 witness: a merge has uploaded channels of both kinds, of different
\* sizes, into the scratch buffer.
C18_Witness ==
    /\ Allocated
    /\ Returned
    /\ \E n, m \in 1..Len(trace) :
          /\ IsScratchWrite(trace[n])
          /\ IsScratchWrite(trace[m])
          /\ trace[n].size < trace[m].size
          /\ trace[m].size = hw_mergeBuffer.size

\* ------------------------------------------------ light-group iterations

\* An accumulate dispatch is in flight: enqueued and not yet run.
DispatchInFlight == \E n \in 1..Len(queue) : IsAccumulate(queue[n])

\* The host's last step was an upload into the scratch buffer or a rebinding
\* of a scale argument.
HostTouchedScratchOrScale ==
    /\ Len(trace') > Len(trace)
    /\ \/ IsScratchWrite(trace'[Len(trace')])
       \/ trace'[Len(trace')].type = "setarg"

\* C19 as stated: the host rebinds no scale argument and enqueues no scratch
\* upload while an accumulate dispatch is in flight.
C19_HostWaitsForDispatch ==
    [][HostTouchedScratchOrScale => ~DispatchInFlight]_vars

\* C19 amended: the iterations do not overlap on the device.  The device runs
\* the operations one at a time in the order the host enqueued them, and
\* whenever an accumulate dispatch is the next to run the scratch buffer holds
\* the channel of the dispatch's own group and the dispatch carries its own
\* group's scale, whatever the host has uploaded or rebound since: the host
\* does not wait between the groups.
C19_DeviceSequential ==
    /\ executed \o queue = SelectSeq(trace, IsDeviceOp)
    /\ (queue # <<>> /\ IsAccumulate(Head(queue))) =>
          /\ hw_mergeBuffer.data =
                 HostChannel(KindOf(Head(queue).obj), Head(queue).idx)
          /\ Head(queue).val =
                 ExpectedScale(Head(queue).obj, Head(queue).idx)

\* C19 witness: a per-pixel-normalized dispatch is the next to run while the
\* next group's upload is already enqueued behind it and the kernel's scale
\* arguments are already rebound to another scale.
C19_Witness ==
    /\ queue # <<>>
    /\ IsAccumulate(Head(queue))
    /\ Head(queue).obj = PPNKernel
    /\ \E n \in 2..Len(queue) : IsScratchWrite(queue[n])
    /\ mergeRADIANCE_PER_PIXEL_NORMALIZEDKernel.scale # Head(queue).val

\* ----------------------------------------------------------- target index

\* C20: with one host image-pipeline channel per configured image pipeline,
\* the target index of every merge, also of one without a pipeline of its
\* own, names an existing host image-pipeline channel.
C20_TargetChannelExists ==
    (InMerge /\ Len(channel_IMAGEPIPELINEs) = Len(imagePipelines))
    => imagePipelineIndex < Len(channel_IMAGEPIPELINEs)

====
